---- MODULE Spec2Model ----
(***************************************************************************)
(* Model of src/model/gp.py: class GaussianProcess, a Gaussian-process     *)
(* regression model whose scale parameters and signal variance are         *)
(* estimated by an ensemble MCMC sampler.                                  *)
(*                                                                         *)
(* Numbers.  The program computes in binary floating point.  The model     *)
(* keeps the shape of that arithmetic: a finite value is an integer        *)
(* counted in units of 2^-FracBits, it carries at most MantBits            *)
(* significant bits, and every operation rounds its exact result to the    *)
(* nearest such value, ties to the even significand.  NaN is one more      *)
(* value, absorbing under every operation.                                 *)
(***************************************************************************)
EXTENDS Integers, Sequences, FiniteSets, TLC

\* ------------------------------------------------------------ bounds
MantBits == 3
FracBits == 3
MaxTaus == 1
MaxWalkers == 4
MaxExtraIter == 1
MaxFits == 2
MaxCalls == 1
MaxT == 3
MaxTime == 2
MaxSynWalkers == 3
MaxSynIter == 2

\* ------------------------------------------------------------ numbers
Unit == 2^FracBits
Half == Unit \div 2
Quarter == Unit \div 4
ThreeQuarters == 3 * Quarter
NaN == 0 - 2^(MantBits + FracBits + 16)

IsNaN(x) == x = NaN
Abs(x) == IF x < 0 THEN 0 - x ELSE x
Sign(x) == IF x < 0 THEN 0 - 1 ELSE 1

RECURSIVE ExpFor(_, _, _)
ExpFor(a, den, e) ==
    IF a \div (den * 2^e) < 2^MantBits THEN e ELSE ExpFor(a, den, e + 1)

\* num/den (den > 0) rounded to the nearest representable value, ties to even
Rnd(num, den) ==
    LET a == Abs(num)
        e == ExpFor(a, den, 0)
        d == den * 2^e
        q == a \div d
        r == a % d
        m == IF 2 * r > d \/ (2 * r = d /\ q % 2 = 1) THEN q + 1 ELSE q
    IN  Sign(num) * m * 2^e

FAdd(x, y) == IF IsNaN(x) \/ IsNaN(y) THEN NaN ELSE Rnd(x + y, 1)
FSub(x, y) == IF IsNaN(x) \/ IsNaN(y) THEN NaN ELSE Rnd(x - y, 1)
FMul(x, y) == IF IsNaN(x) \/ IsNaN(y) THEN NaN ELSE Rnd(x * y, Unit)
\* x / y for y # 0
FDiv(x, y) ==
    IF IsNaN(x) \/ IsNaN(y) THEN NaN ELSE Rnd(Sign(y) * x * Unit, Abs(y))
\* a rounded sum divided by an integer count; 0.0 / 0 is NaN
FDivCount(s, n) == IF n = 0 \/ IsNaN(s) THEN NaN ELSE Rnd(s, n)

\* ------------------------------------------------------------ vectors
Last(v) == v[Len(v)]
Front(v) == SubSeq(v, 1, Len(v) - 1)
Range(n) == [i \in 1..n |-> i - 1]

\* ------------------------------------------------------------ the kernel
\* The kernel is supplied by the caller.  Three kernels stand for it:
\*   "zero"  no covariance between distinct timepoints
\*   "tau"   the first scale parameter, whatever the timepoints
\*   "asym"  (2a + b) / 4, not symmetric in its two time arguments
Kernels == {"zero", "tau", "asym"}

KernelFn(k, a, b, taus) ==
    CASE k = "zero" -> 0
      [] k = "tau" -> taus[1]
      [] k = "asym" -> Rnd((2 * a + b) * Unit, 4)

\* ------------------------------------------------------------ linear algebra
\* numpy.linalg.inv on the 1 x 1 and 2 x 2 matrices the model builds: an LU
\* factorisation with partial pivoting, a LinAlgError exactly when a pivot
\* is zero, then one solve per column of the identity.
Pivot2(K) ==
    IF Abs(K[2][1]) > Abs(K[1][1])
    THEN FSub(K[1][2], FMul(FDiv(K[1][1], K[2][1]), K[2][2]))
    ELSE FSub(K[2][2], FMul(FDiv(K[2][1], K[1][1]), K[1][2]))

InvFails(K) ==
    CASE Len(K) = 0 -> FALSE
      [] Len(K) = 1 -> K[1][1] = 0
      [] OTHER -> (K[1][1] = 0 /\ K[2][1] = 0) \/ Pivot2(K) = 0

Solve2(K, r) ==
    LET swap == Abs(K[2][1]) > Abs(K[1][1])
        A1 == IF swap THEN K[2] ELSE K[1]
        A2 == IF swap THEN K[1] ELSE K[2]
        r1 == IF swap THEN r[2] ELSE r[1]
        r2 == IF swap THEN r[1] ELSE r[2]
        l == FDiv(A2[1], A1[1])
        x2 == FDiv(FSub(r2, FMul(l, r1)), FSub(A2[2], FMul(l, A1[2])))
        x1 == FDiv(FSub(r1, FMul(A1[2], x2)), A1[1])
    IN  <<x1, x2>>

Inv(K) ==
    CASE Len(K) = 0 -> <<>>
      [] Len(K) = 1 -> <<(<<FDiv(Unit, K[1][1])>>)>>
      [] OTHER ->
            LET c1 == Solve2(K, <<Unit, 0>>)
                c2 == Solve2(K, <<0, Unit>>)
            IN  <<(<<c1[1], c2[1]>>), (<<c1[2], c2[2]>>)>>

RECURSIVE DotTo(_, _, _)
DotTo(u, v, k) ==
    IF k = 0 THEN 0
    ELSE IF k = 1 THEN FMul(u[1], v[1])
    ELSE FAdd(DotTo(u, v, k - 1), FMul(u[k], v[k]))

Dot(u, v) == DotTo(u, v, Len(u))
MatVec(M, v) == [i \in 1..Len(M) |-> Dot(M[i], v)]

\* ------------------------------------------------------------ the object
DefaultBurnin == 100

VARIABLES
    kernel, nwalkers, num_params,
    hasData, data,
    hasChain, chain,
    terminals, likelihoods,
    lastOp, lastArg, lastResult,
    initPos,
    chainData,
    fitCalls, completedFits,
    repeats

\* kernel, nwalkers, num_params   self.parameters and self.num_params
\* hasData, data                  self.data, unset until fit stores it
\* hasChain, chain                self.chain, unset until a fit completes
\* terminals, likelihoods         self.terminals, self.likelihoods
\* lastOp, lastArg, lastResult    the last call, its arguments, its outcome
\* initPos                        fit's local init as handed to the sampler
\* chainData                      the data argument of the fit that stored chain
\* fitCalls, completedFits        the fit calls made, and those that returned
\* repeats                        how often the last call repeated the call made
\*                                just before it (counted up to MaxCalls)

vars == <<kernel, nwalkers, num_params, hasData, data, hasChain, chain,
          terminals, likelihoods, lastOp, lastArg, lastResult, initPos,
          chainData, fitCalls, completedFits, repeats>>

Self ==
    [kernel |-> kernel, nwalkers |-> nwalkers, num_params |-> num_params,
     hasData |-> hasData, data |-> data, hasChain |-> hasChain, chain |-> chain,
     terminals |-> terminals, likelihoods |-> likelihoods]

SelfBecomes(s) ==
    /\ kernel' = s.kernel
    /\ nwalkers' = s.nwalkers
    /\ num_params' = s.num_params
    /\ hasData' = s.hasData
    /\ data' = s.data
    /\ hasChain' = s.hasChain
    /\ chain' = s.chain
    /\ terminals' = s.terminals
    /\ likelihoods' = s.likelihoods

None == [kind |-> "none", val |-> <<>>]
Raised(e) == [kind |-> e, val |-> <<>>]
Value(v) == [kind |-> "value", val |-> v]

\* __init__: nothing is stored but the configuration
NewModel(k, w, taus) ==
    [kernel |-> k, nwalkers |-> w, num_params |-> taus + 1,
     hasData |-> FALSE, data |-> <<>>, hasChain |-> FALSE, chain |-> <<>>,
     terminals |-> <<>>, likelihoods |-> <<>>]

\* ------------------------------------------------------------ _construct_kernel
\* A variant that evaluates the kernel for each ordered pair instead of
\* mirroring the element of the pair taken once.
KernelEntryUnmirrored(k, params, times, i, j) ==
    IF i = j THEN Unit
    ELSE FMul(Last(params), KernelFn(k, times[i], times[j], Front(params)))

\* The entry the loop leaves at [i, j]: the identity's, or the element
\* computed once for the pair taken with the smaller index first.
KernelEntry(k, params, times, i, j) ==
    IF i = j THEN Unit
    ELSE LET t1 == IF i < j THEN i ELSE j
             t2 == IF i < j THEN j ELSE i
         IN  FMul(Last(params), KernelFn(k, times[t1], times[t2], Front(params)))

construct_kernel(self, params, times) ==
    LET T == Len(times)
    IN  [i \in 1..T |->
            [j \in 1..T |-> KernelEntry(self.kernel, params, times, i, j)]]

\* ------------------------------------------------------------ likelihood
\* A variant whose comparisons admit the boundary of the region.
GateNonStrict(params) ==
    /\ \A i \in 1..(Len(params) - 1) : ~IsNaN(params[i]) /\ params[i] >= 0
    /\ ~IsNaN(Last(params))
    /\ Last(params) <= Unit
    /\ Last(params) >= 0

\* line 62: (taus > 0).all() and sig_var < 1 and sig_var > 0; a comparison
\* with NaN is false
Gate(params) ==
    /\ \A i \in 1..(Len(params) - 1) : ~IsNaN(params[i]) /\ params[i] > 0
    /\ ~IsNaN(Last(params))
    /\ Last(params) < Unit
    /\ Last(params) > 0

\* The value of the valid branch is a finite log-density; the model keeps
\* what decides the control flow: which branch ran, whether the kernel
\* matrix was built, whether an inversion was attempted, what was raised.
likelihood(self, params) ==
    IF Gate(params)
    THEN IF ~self.hasData
         THEN [self |-> self,
               result |-> [kind |-> "AttributeError",
                           val |-> [builtKernel |-> FALSE, triedInv |-> FALSE]]]
         ELSE LET K == construct_kernel(self, params, Range(Len(self.data)))
              IN  [self |-> self,
                   result |-> [kind |-> IF InvFails(K) THEN "LinAlgError"
                                                        ELSE "value",
                               val |-> [builtKernel |-> TRUE, triedInv |-> TRUE]]]
    ELSE [self |-> self,
          result |-> [kind |-> "neginf",
                      val |-> [builtKernel |-> FALSE, triedInv |-> FALSE]]]

\* ------------------------------------------------------------ optimal_params
NumWalkers(ch) == Len(ch)
NumIter(ch) == Len(ch[1])
NumParams(ch) == Len(ch[1][1])

\* A variant that discards no burn-in.
SliceStartKeepsAll(b, n) == 0

\* the first index a Python slice [b:] over n items keeps (0-based)
SliceStart(b, n) ==
    IF b < 0 THEN (IF n + b < 0 THEN 0 ELSE n + b)
    ELSE IF b > n THEN n ELSE b

\* row k of chain[:, start:, :].reshape(-1, P): walker-major, then iteration
PoolRow(ch, start, k) ==
    LET m == NumIter(ch) - start
    IN  ch[((k - 1) \div m) + 1][start + ((k - 1) % m) + 1]

\* np.mean(axis=0) adds the rows up one after the other, rounding each sum:
\* acc, then rows lo..hi in order (the range is halved to keep the
\* evaluation shallow; the additions happen in the sequential order, and a
\* NaN sum stays NaN)
RECURSIVE PoolSum(_, _, _, _, _, _)
PoolSum(ch, start, p, acc, lo, hi) ==
    IF lo > hi THEN acc
    ELSE IF lo = hi THEN FAdd(acc, PoolRow(ch, start, lo)[p])
    ELSE LET mid == (lo + hi) \div 2
             left == PoolSum(ch, start, p, acc, lo, mid)
         IN  IF IsNaN(left) THEN NaN
             ELSE PoolSum(ch, start, p, left, mid + 1, hi)

\* A variant that drops the burn-in from the stored chain itself.
optimal_paramsInPlace(self, burnin) ==
    IF ~self.hasChain
    THEN [self |-> self, result |-> Raised("AttributeError")]
    ELSE LET ch == self.chain
             start == SliceStart(burnin, NumIter(ch))
             n == NumWalkers(ch) * (NumIter(ch) - start)
             kept == [w \in 1..NumWalkers(ch) |->
                         SubSeq(ch[w], start + 1, NumIter(ch))]
         IN  [self |-> [self EXCEPT !.chain = IF start < NumIter(ch) THEN kept
                                               ELSE ch],
              result |-> Value([p \in 1..NumParams(ch) |->
                                  FDivCount(PoolSum(ch, start, p, 0, 1, n), n)])]

optimal_params(self, burnin) ==
    IF ~self.hasChain
    THEN [self |-> self, result |-> Raised("AttributeError")]
    ELSE LET ch == self.chain
             start == SliceStart(burnin, NumIter(ch))
             n == NumWalkers(ch) * (NumIter(ch) - start)
         IN  [self |-> self,
              result |-> Value([p \in 1..NumParams(ch) |->
                                  FDivCount(PoolSum(ch, start, p, 0, 1, n), n)])]

\* ------------------------------------------------------------ predict_next_timepoint
\* A variant that takes the last observed point's column.
CrossColumnOffByOne(K, T) == [i \in 1..T |-> K[i][T]]

\* line 135: K[:T, T], the new point's column against the observed points
CrossColumn(K, T) == [i \in 1..T |-> K[i][T + 1]]

\* line 135: K[:T, :T]
ObservedBlock(K, T) == [i \in 1..T |-> [j \in 1..T |-> K[i][j]]]

predict_next_timepoint(self) ==
    LET opt == optimal_params(self, DefaultBurnin)
    IN  IF opt.result.kind # "value"
        THEN [self |-> opt.self, result |-> opt.result]
        ELSE LET s == opt.self
                 T == Len(s.data)
                 K == construct_kernel(s, opt.result.val, Range(T + 1))
                 KTT == ObservedBlock(K, T)
                 cross == CrossColumn(K, T)
             IN  IF InvFails(KTT)
                 THEN [self |-> s, result |-> Raised("LinAlgError")]
                 ELSE [self |-> s,
                       result |-> Value(Dot(cross, MatVec(Inv(KTT), s.data)))]

\* ------------------------------------------------------------ fit
Constant(P, t, s) == [i \in 1..P |-> IF i < P THEN t ELSE s]

\* What the random-variate calls may return: a LogNormal variate is
\* positive, a Beta variate lies strictly between 0 and 1.  A draw record
\* gives the variates of the walkers of odd and of even index.
LogNormalDraws == {Unit, 2 * Unit}
BetaDraws == {Half}
Draws ==
    {[odd |-> <<Unit, b>>, even |-> <<t, b>>] : t \in LogNormalDraws, b \in BetaDraws}

\* lines 96-106: the scale draws first, the signal-variance draw last
GeneratedPosition(tauDraws, sigDraw) == tauDraws \o <<sigDraw>>

\* lines 94-106: `not init` holds for None and for an empty list; then one
\* vector per walker is drawn, otherwise init is handed on as it came.
InitialPositions(self, init) ==
    IF init = <<>>
    THEN {[w \in 1..self.nwalkers |->
              LET dr == IF w % 2 = 1 THEN d.odd ELSE d.even
              IN  GeneratedPosition([i \in 1..(self.num_params - 1) |-> dr[1]],
                                    dr[2])] : d \in Draws}
    ELSE {init}

\* The ensemble sampler (emcee.EnsembleSampler, run_mcmc) by its contract:
\* it evaluates the log-posterior at every initial position and at every
\* position it proposes, an error raised there ends the run, a walker moves
\* only to a position of finite log-posterior, and a run that ends leaves a
\* chain of numit positions for every walker.  Here the walkers either all
\* stay where they started, or all move to one proposed position at the
\* last iteration.
Proposals(P) == {Constant(P, 2 * Unit, Half), Constant(P, Unit, ThreeQuarters)}

Walk(p0, numit, s, q) ==
    [w \in 1..Len(p0) |-> [i \in 1..numit |-> IF i >= s THEN q ELSE p0[w]]]

SamplerOutcomes(self, p0, numit) ==
    LET lnprob(q) == likelihood(self, q).result.kind
        stay == [kind |-> "done", chain |-> Walk(p0, numit, numit + 1, p0[1])]
        abort == [kind |-> "LinAlgError", chain |-> <<>>]
    IN  IF \E q \in {p0[w] : w \in 1..Len(p0)} : lnprob(q) = "LinAlgError"
        THEN {abort}
        ELSE {stay}
             \cup {abort : q \in {x \in Proposals(self.num_params) :
                                     lnprob(x) = "LinAlgError"}}
             \cup {[kind |-> "done", chain |-> Walk(p0, numit, numit, q)] :
                      q \in {x \in Proposals(self.num_params) : lnprob(x) = "value"}}

\* line 92
StoreData(self, d) == [self EXCEPT !.hasData = TRUE, !.data = d]

\* A variant that appends the sampled iterations to the chain already stored.
StoreChainAppended(self, sampled) ==
    LET all == IF self.hasChain
               THEN [w \in 1..Len(sampled) |-> self.chain[w] \o sampled[w]]
               ELSE sampled
    IN  [self EXCEPT !.hasChain = TRUE,
                     !.chain = all,
                     !.terminals = [w \in 1..Len(all) |-> Last(all[w])],
                     !.likelihoods = [w \in 1..Len(all) |-> "value"]]

\* lines 110-112
StoreChain(self, sampled) ==
    [self EXCEPT !.hasChain = TRUE,
                 !.chain = sampled,
                 !.terminals = [w \in 1..Len(sampled) |-> Last(sampled[w])],
                 !.likelihoods =
                     [w \in 1..Len(sampled) |->
                         likelihood(self, Last(sampled[w])).result.kind]]

\* A variant that stores the starting positions as the chain before the
\* sampler runs.
fitChainFirst(self, d, p0, out) ==
    LET s1 == StoreChain(StoreData(self, d), Walk(p0, 1, 2, p0[1]))
    IN  IF out.kind = "done"
        THEN LET s2 == StoreChain(s1, out.chain)
             IN  [self |-> s2, result |-> [kind |-> "chain", val |-> s2.chain]]
        ELSE [self |-> s1, result |-> Raised(out.kind)]

\* fit, for one choice p0 of the initial positions and one outcome of the
\* sampler: the data is stored first, the chain only once the sampler returns
fit(self, d, p0, out) ==
    LET s1 == StoreData(self, d)
    IN  IF out.kind = "done"
        THEN LET s2 == StoreChain(s1, out.chain)
             IN  [self |-> s2, result |-> [kind |-> "chain", val |-> s2.chain]]
        ELSE [self |-> s1, result |-> Raised(out.kind)]

\* ------------------------------------------------------------ inputs
Taus == 1..MaxTaus
\* the sampler takes an even number of walkers, at least twice the dimension
WalkerCounts(taus) == {w \in 1..MaxWalkers : w % 2 = 0 /\ w >= 2 * (taus + 1)}

Models == {NewModel(k, w, t) : k \in Kernels, t \in Taus, w \in 1..MaxWalkers}

DataSets == {<<2 * Unit>>, <<Unit, 3 * Unit>>}

Iterations == {DefaultBurnin + k : k \in 0..MaxExtraIter}

Burnins == {0 - 1, DefaultBurnin, DefaultBurnin + 1}

\* initial positions a caller may pass: inside the valid region, and outside
GivenInits(W, P) ==
    {[w \in 1..W |-> Constant(P, Unit, ThreeQuarters)],
     [w \in 1..W |-> Constant(P, 0 - Unit, Half)]}

InitArgs(W, P) == {<<>>} \cup GivenInits(W, P)

\* ------------------------------------------------------------ actions
Bump(n) == IF n < MaxCalls THEN n + 1 ELSE n

Fit(d, init, numit) ==
    /\ fitCalls < MaxFits
    /\ \E p0 \in InitialPositions(Self, init) :
       \E out \in SamplerOutcomes(StoreData(Self, d), p0, numit) :
          LET r == fit(Self, d, p0, out)
          IN  /\ SelfBecomes(r.self)
              /\ lastOp' = "fit"
              /\ lastArg' = [data |-> d, init |-> init, numit |-> numit]
              /\ lastResult' = r.result
              /\ initPos' = p0
              /\ chainData' = IF out.kind = "done" THEN d ELSE chainData
              /\ fitCalls' = fitCalls + 1
              /\ completedFits' =
                     IF out.kind = "done" THEN completedFits + 1 ELSE completedFits
              /\ repeats' = 0

OptimalParams(burnin) ==
    LET r == optimal_params(Self, burnin)
    IN  /\ SelfBecomes(r.self)
        /\ lastOp' = "optimal_params"
        /\ lastArg' = [burnin |-> burnin]
        /\ lastResult' = r.result
        /\ repeats' = IF lastOp = "optimal_params" /\ lastArg.burnin = burnin
                       THEN Bump(repeats) ELSE 0
        /\ UNCHANGED <<initPos, chainData, fitCalls, completedFits>>

PredictNextTimepoint ==
    LET r == predict_next_timepoint(Self)
    IN  /\ SelfBecomes(r.self)
        /\ lastOp' = "predict_next_timepoint"
        /\ lastArg' = <<>>
        /\ lastResult' = r.result
        /\ UNCHANGED <<initPos, chainData, fitCalls, completedFits, repeats>>

Likelihood(params) ==
    LET r == likelihood(Self, params)
    IN  /\ SelfBecomes(r.self)
        /\ lastOp' = "likelihood"
        /\ lastArg' = [params |-> params]
        /\ lastResult' = r.result
        /\ UNCHANGED <<initPos, chainData, fitCalls, completedFits, repeats>>

ConstructKernelCall(params, times) ==
    /\ SelfBecomes(Self)
    /\ lastOp' = "_construct_kernel"
    /\ lastArg' = [params |-> params, times |-> times]
    /\ lastResult' = Value(construct_kernel(Self, params, times))
    /\ UNCHANGED <<initPos, chainData, fitCalls, completedFits, repeats>>

\* ------------------------------------------------------------ specifications
Fresh(s) ==
    /\ kernel = s.kernel
    /\ nwalkers = s.nwalkers
    /\ num_params = s.num_params
    /\ hasData = s.hasData
    /\ data = s.data
    /\ hasChain = s.hasChain
    /\ chain = s.chain
    /\ terminals = s.terminals
    /\ likelihoods = s.likelihoods
    /\ lastOp = "__init__"
    /\ lastArg = <<>>
    /\ lastResult = None
    /\ initPos = <<>>
    /\ chainData = IF s.hasChain THEN s.data ELSE <<>>
    /\ fitCalls = 0
    /\ completedFits = 0
    /\ repeats = 0

\* The life of one model object: constructed, then fitted, queried and
\* fitted again in any order.
Init ==
    \E m \in Models :
        /\ m.kernel \in {"zero", "tau"}
        /\ m.nwalkers \in WalkerCounts(m.num_params - 1)
        /\ Fresh(m)

Next ==
    \/ \E d \in DataSets, init \in InitArgs(nwalkers, num_params),
          numit \in Iterations : Fit(d, init, numit)
    \/ \E burnin \in Burnins : OptimalParams(burnin)
    \/ PredictNextTimepoint

Spec == Init /\ [][Next]_vars

\* _construct_kernel as a function of its arguments: a model object with any
\* kernel, the method called once on a parameter vector and a time sequence.
KernelArgs ==
    {Constant(P, t, s) : P \in 2..3, t \in {0 - Unit, Unit, 2 * Unit},
                         s \in {Half, ThreeQuarters, 2 * Unit}}

TimeSeqs == UNION {[1..T -> 0..MaxTime] : T \in 0..MaxT}

InitKernel ==
    \E m \in Models : m.nwalkers \in WalkerCounts(m.num_params - 1) /\ Fresh(m)

NextKernel ==
    /\ lastOp = "__init__"
    /\ \E params \in KernelArgs, times \in TimeSeqs :
           ConstructKernelCall(params, times)

SpecKernel == InitKernel /\ [][NextKernel]_vars

\* likelihood as a function of the object and its argument: a model object
\* as constructed, or as one fit call leaves it, the method called on
\* parameter vectors inside and outside the valid region.
AfterFit(m) ==
    UNION {UNION {{fit(m, a[1], p0, out).self :
                      out \in SamplerOutcomes(StoreData(m, a[1]), p0, a[3])} :
                  p0 \in InitialPositions(m, a[2])} :
           a \in DataSets \X InitArgs(m.nwalkers, m.num_params) \X Iterations}

LikelihoodArgs ==
    {Constant(P, t, s) : P \in 2..3, t \in {0 - Unit, 0, Unit, 2 * Unit},
                         s \in {0 - Half, 0, Half, Unit, 2 * Unit}}
    \cup {<<Unit, 0 - Unit, Half>>, <<0, Unit, Half>>, <<NaN, Half>>, <<Unit, NaN>>}

InitLikelihood ==
    \E m \in Models :
        /\ m.nwalkers \in WalkerCounts(m.num_params - 1)
        /\ \E s \in {m} \cup AfterFit(m) : Fresh(s)

NextLikelihood == \E params \in LikelihoodArgs : Likelihood(params)

SpecLikelihood == InitLikelihood /\ [][NextLikelihood]_vars

\* optimal_params as a function of the stored chain: a chain of any small
\* shape, the same position everywhere but for at most one cell, and the
\* method called with burn-in values below, at and beyond its depth.
SynPositions(P) ==
    {Constant(P, ThreeQuarters, ThreeQuarters), Constant(P, 2 * Unit, Half),
     Constant(P, Unit, Quarter)}

SynChains ==
    UNION {{[w \in 1..sh[1] |-> [i \in 1..sh[2] |->
                IF w = sh[3] /\ i = sh[4] THEN q ELSE c]] :
              c \in SynPositions(sh[5]), q \in SynPositions(sh[5])} :
           sh \in (1..MaxSynWalkers) \X (1..MaxSynIter) \X (1..MaxSynWalkers)
                  \X (1..MaxSynIter) \X (2..3)}

SynBurnins == (0 - 1)..(MaxSynIter + 1)

InitMean ==
    \E ch \in SynChains :
        Fresh(StoreChain(StoreData(NewModel("zero", NumWalkers(ch),
                                            NumParams(ch) - 1),
                                   <<2 * Unit>>),
                         ch))

NextMean == \E burnin \in SynBurnins : OptimalParams(burnin)

SpecMean == InitMean /\ [][NextMean]_vars

\* ------------------------------------------------------------ properties
\* a parameter vector outside the valid region: a scale parameter that is not
\* positive, or a signal variance that is not strictly between 0 and 1
OutsideRegion(params) ==
    \/ \E i \in 1..(Len(params) - 1) : params[i] <= 0
    \/ Last(params) <= 0
    \/ Last(params) >= Unit

\* C1: for a parameter vector outside the valid region likelihood returns
\* negative infinity: it raises nothing, builds no kernel matrix and attempts
\* no inversion, whatever data and kernel the object holds.
C1_RejectsOutsideRegion ==
    (lastOp = "likelihood" /\ OutsideRegion(lastArg.params))
        => lastResult = [kind |-> "neginf",
                         val |-> [builtKernel |-> FALSE, triedInv |-> FALSE]]

C1_Witness ==
    /\ lastOp = "likelihood"
    /\ lastArg.params[1] = 0
    /\ Last(lastArg.params) = Half
    /\ hasData /\ Len(data) = 2 /\ kernel = "tau"
    /\ lastResult.kind = "neginf"

\* C2: _construct_kernel returns a T x T matrix with unit diagonal, equal
\* entries at [i, j] and [j, i], and at each pair i < j the signal variance
\* times the kernel evaluated at (times[i], times[j]), also for a kernel that
\* is not symmetric and for T = 0.
C2_SymmetricUnitDiagonal ==
    lastOp = "_construct_kernel"
        => LET K == lastResult.val
               times == lastArg.times
               params == lastArg.params
               T == Len(times)
           IN  /\ Len(K) = T
               /\ \A i \in 1..T :
                     /\ Len(K[i]) = T
                     /\ K[i][i] = Unit
                     /\ \A j \in 1..T :
                           /\ K[i][j] = K[j][i]
                           /\ i < j =>
                                K[i][j] = FMul(Last(params),
                                               KernelFn(kernel, times[i], times[j],
                                                        Front(params)))

C2_Witness ==
    /\ lastOp = "_construct_kernel"
    /\ kernel = "asym"
    /\ Len(lastArg.times) = MaxT
    /\ KernelFn("asym", lastArg.times[1], lastArg.times[2], <<>>)
           # KernelFn("asym", lastArg.times[2], lastArg.times[1], <<>>)
    /\ lastResult.val[1][2] # 0
    /\ lastResult.val[2][1] = lastResult.val[1][2]

\* C3: while no fit call has completed, predict_next_timepoint and
\* optimal_params fail with an error, also after a fit call that aborted.
C3_NoFitNoPrediction ==
    (completedFits = 0 /\ lastOp \in {"predict_next_timepoint", "optimal_params"})
        => lastResult.kind = "AttributeError"

C3_Witness ==
    /\ completedFits = 0
    /\ fitCalls > 0
    /\ hasData
    /\ lastOp = "predict_next_timepoint"
    /\ lastResult.kind = "AttributeError"

\* C4: optimal_params with a burn-in of at least the chain's depth fails
\* instead of returning a vector, and so does predict_next_timepoint on a
\* chain no deeper than the default burn-in.
C4_BurninBeyondChainFails ==
    /\ (lastOp = "optimal_params" /\ hasChain /\ lastArg.burnin >= NumIter(chain))
           => lastResult.kind # "value"
    /\ (lastOp = "predict_next_timepoint" /\ hasChain
            /\ NumIter(chain) <= DefaultBurnin)
           => lastResult.kind # "value"

\* C5: every initial position fit hands to the sampler lies inside the valid
\* region, whether fit generated it or the caller passed it.
C5_InitialPositionsValid ==
    lastOp = "fit" => \A w \in 1..Len(initPos) : ~OutsideRegion(initPos[w])

\* C6: a fit call that completes stores and returns a chain of shape
\* (nwalkers, numit, num_params), generated its initial positions as
\* nwalkers vectors of length num_params when none were passed, and leaves
\* the object holding this call's data and chain only.
C6_FitStoresThisCallsChain ==
    (lastOp = "fit" /\ lastResult.kind = "chain")
        => /\ Len(chain) = nwalkers
           /\ \A w \in 1..Len(chain) :
                 /\ Len(chain[w]) = lastArg.numit
                 /\ \A i \in 1..Len(chain[w]) : Len(chain[w][i]) = num_params
           /\ lastResult.val = chain
           /\ hasData /\ data = lastArg.data
           /\ chainData = lastArg.data
           /\ lastArg.init = <<>>
                 => /\ Len(initPos) = nwalkers
                    /\ \A w \in 1..Len(initPos) : Len(initPos[w]) = num_params

C6_Witness ==
    /\ lastOp = "fit"
    /\ lastResult.kind = "chain"
    /\ completedFits = 2
    /\ lastArg.init = <<>>
    /\ lastArg.numit = DefaultBurnin

\* C7: optimal_params and predict_next_timepoint change nothing the object
\* stores, and an optimal_params call repeated with the same burn-in returns
\* what the call before it returned.
C7_ReadsChangeNothing ==
    [][/\ lastOp' \in {"optimal_params", "predict_next_timepoint"}
           => UNCHANGED <<kernel, nwalkers, num_params, hasData, data, hasChain,
                          chain, terminals, likelihoods>>
       /\ (lastOp = "optimal_params" /\ lastOp' = "optimal_params"
              /\ lastArg' = lastArg)
           => lastResult' = lastResult]_vars

C7_Witness ==
    /\ lastOp = "optimal_params"
    /\ repeats > 0
    /\ lastResult.kind = "value"
    /\ completedFits > 0

\* the samples optimal_params keeps for parameter p, in the order of the
\* flattened pool: walker by walker, the iterations after the burn-in
PostBurnin(ch, B, p) ==
    LET m == NumIter(ch) - B
    IN  [k \in 1..(NumWalkers(ch) * m) |->
            ch[((k - 1) \div m) + 1][B + ((k - 1) % m) + 1][p]]

RECURSIVE RunningSum(_)
RunningSum(seq) ==
    IF seq = <<>> THEN 0 ELSE FAdd(RunningSum(Front(seq)), Last(seq))

IsConstantChain(ch) ==
    \A w \in 1..NumWalkers(ch) : \A i \in 1..NumIter(ch) : ch[w][i] = ch[1][1]

\* C8 as stated: on a chain holding the same vector at every walker and
\* iteration, optimal_params returns exactly that vector for every burn-in
\* below the chain's depth.
C8_ConstantChainExact ==
    (lastOp = "optimal_params" /\ hasChain /\ IsConstantChain(chain)
        /\ lastArg.burnin < NumIter(chain))
        => lastResult = Value(chain[1][1])

\* C8 as amended: for 0 <= B < depth the result for parameter p is the
\* floating-point mean of the samples of iterations >= B alone, their running
\* sum rounded at each addition and divided by their number; on a constant
\* chain it is the constant exactly when the pool holds one or two samples.
C8_FloatingPointMean ==
    (lastOp = "optimal_params" /\ hasChain /\ lastArg.burnin >= 0
        /\ lastArg.burnin < NumIter(chain))
        => LET B == lastArg.burnin
               n == NumWalkers(chain) * (NumIter(chain) - B)
           IN  /\ lastResult.kind = "value"
               /\ Len(lastResult.val) = NumParams(chain)
               /\ \A p \in 1..NumParams(chain) :
                     lastResult.val[p]
                         = FDivCount(RunningSum(PostBurnin(chain, B, p)), n)
               /\ (IsConstantChain(chain) /\ n <= 2)
                     => lastResult.val = chain[1][1]

C8_Witness ==
    /\ lastOp = "optimal_params"
    /\ hasChain
    /\ lastArg.burnin = 1
    /\ NumIter(chain) = 2
    /\ chain[1][1] # chain[1][2]
    /\ lastResult.kind = "value"
    /\ lastResult.val = chain[1][2]

\* C9: on a 1-point dataset [d] and a chain deeper than the default burn-in,
\* predict_next_timepoint returns K[0,1] * d, K[0,1] being the signal variance
\* times kernel(0, 1, scale parameters) at optimal_params(); it returns d
\* when K[0,1] equals the diagonal entry.
C9_OnePointPrediction ==
    (lastOp = "predict_next_timepoint" /\ hasChain /\ Len(data) = 1
        /\ NumIter(chain) > DefaultBurnin)
        => LET opt == optimal_params(Self, DefaultBurnin).result.val
               K01 == FMul(Last(opt), KernelFn(kernel, 0, 1, Front(opt)))
           IN  /\ lastResult.kind = "value"
               /\ lastResult.val = FMul(K01, data[1])
               /\ K01 = Unit => lastResult.val = data[1]

C9_Witness ==
    /\ lastOp = "predict_next_timepoint"
    /\ hasChain
    /\ Len(data) = 1
    /\ NumIter(chain) > DefaultBurnin
    /\ kernel = "tau"
    /\ LET opt == optimal_params(Self, DefaultBurnin).result.val
       IN  FMul(Last(opt), opt[1]) = Unit
    /\ lastResult = Value(data[1])

\* C10: the stored data and the stored chain always come from the same fit
\* call, also after a fit call that aborted inside the sampler.
C10_DataAndChainFromOneFit ==
    hasChain => data = chainData

====
